---- MODULE Spec2Model ----
(***************************************************************************)
(* FallbackStorageAdapter: one logical blob storage over an ordered list   *)
(* of storage adapters.  adapters[1] (index 0 in the source) is the target *)
(* of every write, the others are fallbacks for reads.                     *)
(*                                                                         *)
(* The storage adapters themselves are outside the class; they are         *)
(* modelled as in-memory backends (Provider* operators): a map from object *)
(* name to blob for the workspace, a bucket flag and listing cursors.      *)
(***************************************************************************)
EXTENDS Integers, Sequences, FiniteSets, TLC

\* Number of entries of config.storages.
NumProviders == 2
\* Largest batch one backend cursor hands out per next().
MaxBatch == 2
\* Most calls of close() on one listing iterator.
MaxCloses == 1

\* undefined / a defined value
Undefined == <<>>
Some(x) == <<x>>

\* c.name of the configuration entries, in declared order.
StorageNames == <<"minio", "s3", "datalake", "fs">>
Backends == 1..NumProviders
Workspaces == {"ws1", "ws2"}
Names == {"a", "b"}
\* the order in which a backend lists its objects
NameOrder == <<"a", "b">>
\* the callers of one listing iterator
Consumers == {1, 2}
Contents == {"c1", "c2"}
\* <<offset, length>> of a partial read; the length may be left out
Ranges == {<<0, Undefined>>, <<1, Some(1)>>}

\* A backend's own identifier of the object stored under a name (Blob._id).
ObjectId(name) == CASE name = "a" -> "blob-a" [] name = "b" -> "blob-b" [] OTHER -> "blob-?"

\* undefined / a defined value

VARIABLES
    adapters,   \* this.adapters: sequence of <<name, backend>>
    ws,         \* the workspaceId the backends hold data for
    store,      \* store[b][name]: Undefined or Some(content), objects of backend b
    bucket,     \* bucket[b]: backend b reports exists(ws)
    written,    \* history: written[name] = Some(c) after a successful put of c, cleared by remove
    last,       \* the last aggregator call: its arguments, the backend calls it made, its outcome
    itKind,     \* which method made the listing iterator: "none", "find" or "listStream"
    itAdapters, \* makeStorageIterator's local `adapters`: the adapters not yet visited
    itProvider, \* makeStorageIterator's local `provider`: Undefined or Some(<<name, backend>>)
    itIterator, \* makeStorageIterator's local `iterator`: Undefined or Some(backend whose cursor it is)
    frames,     \* frames[c]: where consumer c's call of next() is suspended, and its locals
    cursor,     \* cursor[b]: the listing cursor of backend b made for this iterator
    yielded,    \* history: the entries makeStorageIterator's next() has returned so far
    closeCalls, \* history: how many times close() was called on the listing iterator
    hist        \* history: hist.overlapped, a call was made while another was suspended;
                \* hist.use, "closed" once close() was called with a cursor in `iterator`,
                \* "used" once a call was made after that

listVars == <<itKind, itAdapters, itProvider, itIterator, frames, cursor, yielded, closeCalls, hist>>
vars == <<adapters, ws, store, bucket, written, last, listVars>>

----------------------------------------------------------------------------
(* Construction *)

RECURSIVE reverse(_)
reverse(s) == IF s = <<>> THEN <<>> ELSE Append(reverse(Tail(s)), Head(s))

\* config.storages: entry i is built by storageFactory into backend i.
Config == [i \in Backends |-> StorageNames[i]]

\* buildStorage, handing over the adapters in declared order
buildStorageDeclared(config) ==
    [i \in 1..Len(config) |-> <<config[i], i>>]

buildStorage(config) ==
    LET pushed == [i \in 1..Len(config) |-> <<config[i], i>>]
    IN reverse(pushed)

----------------------------------------------------------------------------
(* Records of calls and outcomes *)

Call(id, method, t, arg) == [provider |-> id, method |-> method, tenant |-> t, arg |-> arg]

Ok(value) == [kind |-> "ok", code |-> "", value |-> value, message |-> <<>>]
\* new NoSuchKeyError(`${workspaceId.name} missing ${name}`)
NoSuchKeyError(t, name) ==
    [kind |-> "error", code |-> "NoSuchKey", value |-> Undefined, message |-> <<t, "missing", name>>]
\* an error thrown by the adapter called `id`, passed on as it is
BackendError(id) ==
    [kind |-> "error", code |-> "BackendError", value |-> Undefined, message |-> <<id>>]

Op(op, t, args, calls, result, logged) ==
    [op |-> op, tenant |-> t, args |-> args, calls |-> calls, result |-> result, logged |-> logged]

----------------------------------------------------------------------------
(* The backends (StorageAdapter implementations) *)

ProviderStat(b, t, name) ==
    IF t = ws /\ store[b][name] # Undefined
    THEN Some([_id |-> ObjectId(name), etag |-> store[b][name][1], provider |-> ""])
    ELSE Undefined

\* content of the object with identifier id, Undefined when the backend has none
ProviderContent(b, t, id) ==
    LET hit == {n \in Names : ObjectId(n) = id /\ store[b][n] # Undefined}
    IN IF t = ws /\ hit # {} THEN store[b][CHOOSE n \in hit : TRUE] ELSE Undefined

ProviderPut(st, b, name, content) == [st EXCEPT ![b][name] = Some(content)]

ProviderRemove(st, b, names) ==
    [st EXCEPT ![b] = [n \in Names |-> IF \E i \in 1..Len(names) : names[i] = n
                                       THEN Undefined ELSE st[b][n]]]

----------------------------------------------------------------------------
(* findProvider *)

findProviderReversed(t, objectName) ==
    LET regs == reverse(adapters)
        holders == {i \in 1..Len(regs) : ProviderStat(regs[i][2], t, objectName) # Undefined}
        stop == IF holders = {} THEN Len(regs) ELSE CHOOSE i \in holders : \A j \in holders : i <= j
        calls == [i \in 1..stop |-> Call(regs[i][1], "stat", t, <<objectName>>)]
    IN IF holders = {}
       THEN [found |-> FALSE, id |-> "", provider |-> 0, stat |-> Undefined, calls |-> calls]
       ELSE [found |-> TRUE, id |-> regs[stop][1], provider |-> regs[stop][2],
             stat |-> ProviderStat(regs[stop][2], t, objectName), calls |-> calls]

\* findProvider, asking every adapter for its stat before choosing the first
\* that answered
findProviderAll(t, objectName) ==
    LET holders == {i \in 1..Len(adapters) : ProviderStat(adapters[i][2], t, objectName) # Undefined}
        first == CHOOSE i \in holders : \A j \in holders : i <= j
        calls == [i \in 1..Len(adapters) |-> Call(adapters[i][1], "stat", t, <<objectName>>)]
    IN IF holders = {}
       THEN [found |-> FALSE, id |-> "", provider |-> 0, stat |-> Undefined, calls |-> calls]
       ELSE [found |-> TRUE, id |-> adapters[first][1], provider |-> adapters[first][2],
             stat |-> ProviderStat(adapters[first][2], t, objectName), calls |-> calls]

RECURSIVE findProviderFrom(_, _, _)
findProviderFrom(i, t, objectName) ==
    IF i > Len(adapters)
    THEN [found |-> FALSE, id |-> "", provider |-> 0, stat |-> Undefined, calls |-> <<>>]
    ELSE LET id == adapters[i][1]
             provider == adapters[i][2]
             stat == ProviderStat(provider, t, objectName)
             call == Call(id, "stat", t, <<objectName>>)
         IN IF stat # Undefined
            THEN [found |-> TRUE, id |-> id, provider |-> provider, stat |-> stat,
                  calls |-> <<call>>]
            ELSE LET rest == findProviderFrom(i + 1, t, objectName)
                 IN [rest EXCEPT !.calls = <<call>> \o @]

findProvider(t, objectName) == findProviderFrom(1, t, objectName)

----------------------------------------------------------------------------
(* stat, get, partial, read *)

stat(name) ==
    LET result == findProvider(ws, name)
        value == IF result.found
                 THEN Some([result.stat[1] EXCEPT !.provider = result.id])
                 ELSE Undefined
    IN /\ last' = Op("stat", ws, <<name>>, result.calls, Ok(value), <<>>)
       /\ UNCHANGED <<adapters, ws, store, bucket, written, listVars>>

\* Delegate, passing the external name to the adapter instead of stat._id
DelegateByName(op, form, name, extra) ==
    LET result == findProvider(ws, name)
    IN IF ~result.found
       THEN Op(op, ws, <<name>> \o extra, result.calls, NoSuchKeyError(ws, name), <<>>)
       ELSE LET call == Call(result.id, op, ws, <<name>> \o extra)
                content == ProviderContent(result.provider, ws, name)
                outcome == IF content = Undefined
                           THEN BackendError(result.id)
                           ELSE Ok(Some([form |-> form, data |-> content[1],
                                         from |-> result.id, range |-> extra]))
            IN Op(op, ws, <<name>> \o extra, Append(result.calls, call), outcome, <<>>)

\* Delegate, asking the target adapter for a name no adapter holds instead of throwing
DelegateNoThrow(op, form, name, extra) ==
    LET result == findProvider(ws, name)
        found == IF result.found THEN result
                 ELSE [result EXCEPT !.id = adapters[1][1], !.provider = adapters[1][2],
                                     !.stat = Some([_id |-> ObjectId(name), etag |-> "",
                                                    provider |-> ""])]
        id == found.stat[1]._id
        call == Call(found.id, op, ws, <<id>> \o extra)
        content == ProviderContent(found.provider, ws, id)
        outcome == IF content = Undefined
                   THEN BackendError(found.id)
                   ELSE Ok(Some([form |-> form, data |-> content[1],
                                 from |-> found.id, range |-> extra]))
    IN Op(op, ws, <<name>> \o extra, Append(result.calls, call), outcome, <<>>)

\* a read through the located adapter: op is get, partial or read
Delegate(op, form, name, extra) ==
    LET result == findProvider(ws, name)
    IN IF ~result.found
       THEN Op(op, ws, <<name>> \o extra, result.calls, NoSuchKeyError(ws, name), <<>>)
       ELSE LET id == result.stat[1]._id
                call == Call(result.id, op, ws, <<id>> \o extra)
                content == ProviderContent(result.provider, ws, id)
                outcome == IF content = Undefined
                           THEN BackendError(result.id)
                           ELSE Ok(Some([form |-> form, data |-> content[1],
                                         from |-> result.id, range |-> extra]))
            IN Op(op, ws, <<name>> \o extra, Append(result.calls, call), outcome, <<>>)

get(name) ==
    /\ last' = Delegate("get", "stream", name, <<>>)
    /\ UNCHANGED <<adapters, ws, store, bucket, written, listVars>>

partial(objectName, offset, length) ==
    /\ last' = Delegate("partial", "range", objectName, <<offset, length>>)
    /\ UNCHANGED <<adapters, ws, store, bucket, written, listVars>>

read(objectName) ==
    /\ last' = Delegate("read", "buffers", objectName, <<>>)
    /\ UNCHANGED <<adapters, ws, store, bucket, written, listVars>>

----------------------------------------------------------------------------
(* put, remove *)

\* put, also clearing the name in the other storages
putAndClean(objectName, content, fails) ==
    LET id == adapters[1][1]
        adapter == adapters[1][2]
        call == Call(id, "put", ws, <<objectName, content>>)
        cleaned == [b \in Backends |->
                      IF b = adapter THEN store[b] ELSE [store[b] EXCEPT ![objectName] = Undefined]]
    IN /\ IF fails
          THEN /\ last' = Op("put", ws, <<objectName, content>>, <<call>>, BackendError(id), <<>>)
               /\ UNCHANGED <<store, written>>
          ELSE /\ store' = ProviderPut(cleaned, adapter, objectName, content)
               /\ written' = [written EXCEPT ![objectName] = Some(content)]
               /\ last' = Op("put", ws, <<objectName, content>>, <<call>>,
                             Ok(Some([etag |-> content])), <<>>)
       /\ UNCHANGED <<adapters, ws, bucket, listVars>>

\* put, writing to the last adapter of the list instead of the first
putToLast(objectName, content, fails) ==
    LET id == adapters[Len(adapters)][1]
        adapter == adapters[Len(adapters)][2]
        call == Call(id, "put", ws, <<objectName, content>>)
    IN /\ IF fails
          THEN /\ last' = Op("put", ws, <<objectName, content>>, <<call>>, BackendError(id), <<>>)
               /\ UNCHANGED <<store, written>>
          ELSE /\ store' = ProviderPut(store, adapter, objectName, content)
               /\ written' = [written EXCEPT ![objectName] = Some(content)]
               /\ last' = Op("put", ws, <<objectName, content>>, <<call>>,
                             Ok(Some([etag |-> content])), <<>>)
       /\ UNCHANGED <<adapters, ws, bucket, listVars>>

\* fails: the target adapter's put throws
put(objectName, content, fails) ==
    LET id == adapters[1][1]
        adapter == adapters[1][2]
        call == Call(id, "put", ws, <<objectName, content>>)
    IN /\ IF fails
          THEN /\ last' = Op("put", ws, <<objectName, content>>, <<call>>, BackendError(id), <<>>)
               /\ UNCHANGED <<store, written>>
          ELSE /\ store' = ProviderPut(store, adapter, objectName, content)
               /\ written' = [written EXCEPT ![objectName] = Some(content)]
               /\ last' = Op("put", ws, <<objectName, content>>, <<call>>,
                             Ok(Some([etag |-> content])), <<>>)
       /\ UNCHANGED <<adapters, ws, bucket, listVars>>

\* the loop of remove, skipping the adapters that hold none of the names
RECURSIVE removeFromHolders(_, _, _, _)
removeFromHolders(i, st, objectNames, faulty) ==
    IF i > Len(adapters)
    THEN [store |-> st, calls |-> <<>>, result |-> Ok(Undefined)]
    ELSE LET id == adapters[i][1]
             adapter == adapters[i][2]
             call == Call(id, "remove", ws, <<objectNames>>)
             holds == \E k \in 1..Len(objectNames) : st[adapter][objectNames[k]] # Undefined
         IN IF ~holds
            THEN removeFromHolders(i + 1, st, objectNames, faulty)
            ELSE IF adapter \in faulty
            THEN [store |-> st, calls |-> <<call>>, result |-> BackendError(id)]
            ELSE LET rest == removeFromHolders(i + 1, ProviderRemove(st, adapter, objectNames),
                                               objectNames, faulty)
                 IN [rest EXCEPT !.calls = <<call>> \o @]

\* the loop of remove, going on to the other adapters after a throw and
\* throwing the first error at the end
RECURSIVE removeFromBestEffort(_, _, _, _)
removeFromBestEffort(i, st, objectNames, faulty) ==
    IF i > Len(adapters)
    THEN [store |-> st, calls |-> <<>>, result |-> Ok(Undefined)]
    ELSE LET id == adapters[i][1]
             adapter == adapters[i][2]
             call == Call(id, "remove", ws, <<objectNames>>)
             rest == removeFromBestEffort(i + 1,
                                          IF adapter \in faulty THEN st
                                          ELSE ProviderRemove(st, adapter, objectNames),
                                          objectNames, faulty)
         IN [rest EXCEPT !.calls = <<call>> \o @,
                         !.result = IF adapter \in faulty THEN BackendError(id) ELSE @]

\* the loop of remove from adapter i on; faulty: the backends whose remove throws
RECURSIVE removeFrom(_, _, _, _)
removeFrom(i, st, objectNames, faulty) ==
    IF i > Len(adapters)
    THEN [store |-> st, calls |-> <<>>, result |-> Ok(Undefined)]
    ELSE LET id == adapters[i][1]
             adapter == adapters[i][2]
             call == Call(id, "remove", ws, <<objectNames>>)
         IN IF adapter \in faulty
            THEN [store |-> st, calls |-> <<call>>, result |-> BackendError(id)]
            ELSE LET rest == removeFrom(i + 1, ProviderRemove(st, adapter, objectNames),
                                        objectNames, faulty)
                 IN [rest EXCEPT !.calls = <<call>> \o @]

remove(objectNames, faulty) ==
    LET run == removeFrom(1, store, objectNames, faulty)
    IN /\ store' = run.store
       /\ written' = [n \in Names |-> IF \E i \in 1..Len(objectNames) : objectNames[i] = n
                                      THEN Undefined ELSE written[n]]
       /\ last' = Op("remove", ws, <<objectNames>>, run.calls, run.result, <<>>)
       /\ UNCHANGED <<adapters, ws, bucket, listVars>>

----------------------------------------------------------------------------
(* Specification of the object operations *)

NameLists == {<<>>, <<"a">>, <<"b">>, <<"a", "b">>}
\* the backends whose calls throw during one operation
Faults == SUBSET Backends
\* remove stops at the first throw: one faulty backend stands for every set it is the first of
FirstFaults == {F \in Faults : Cardinality(F) <= 1}
Stores == [Backends -> [Names -> {Undefined} \cup {Some(c) : c \in Contents}]]
Idle == Op("none", "", <<>>, <<>>, Ok(Undefined), <<>>)

IdleFrame == [pc |-> "idle", it |-> Undefined, docInfos |-> <<>>, out |-> Undefined]
NoCursor == [opens |-> 0, closes |-> 0, pos |-> 0, late |-> FALSE]
NoHist == [overlapped |-> FALSE, use |-> "ok"]
NoIterator ==
    /\ itKind = "none"
    /\ itAdapters = <<>>
    /\ itProvider = Undefined
    /\ itIterator = Undefined
    /\ frames = [c \in Consumers |-> IdleFrame]
    /\ cursor = [b \in Backends |-> NoCursor]
    /\ yielded = <<>>
    /\ closeCalls = 0
    /\ hist = NoHist

Init ==
    /\ adapters = buildStorage(Config)
    /\ ws \in Workspaces
    /\ store \in Stores
    /\ bucket = [b \in Backends |-> TRUE]
    /\ written = [n \in Names |-> Undefined]
    /\ last = Idle
    /\ NoIterator

Next ==
    \/ \E n \in Names : stat(n)
    \/ \E n \in Names : get(n)
    \/ \E n \in Names, r \in Ranges : partial(n, r[1], r[2])
    \/ \E n \in Names : read(n)
    \/ \E n \in Names, c \in Contents, f \in BOOLEAN : put(n, c, f)
    \/ \E ns \in NameLists, F \in FirstFaults : remove(ns, F)

Spec == Init /\ [][Next]_vars

----------------------------------------------------------------------------
(* exists, make, delete *)

ExistsCall(i) == Call(adapters[i][1], "exists", ws, <<>>)
Thrown(id, method) == [adapter |-> id, method |-> method]

\* exists, true as soon as one adapter reports existence
RECURSIVE existsAnyFrom(_, _)
existsAnyFrom(i, faulty) ==
    IF i > Len(adapters)
    THEN [calls |-> <<>>, result |-> Ok(Some(FALSE))]
    ELSE IF adapters[i][2] \in faulty
    THEN [calls |-> <<ExistsCall(i)>>, result |-> BackendError(adapters[i][1])]
    ELSE IF bucket[adapters[i][2]]
    THEN [calls |-> <<ExistsCall(i)>>, result |-> Ok(Some(TRUE))]
    ELSE LET rest == existsAnyFrom(i + 1, faulty)
         IN [rest EXCEPT !.calls = <<ExistsCall(i)>> \o @]

\* the loop of exists from adapter i on; faulty: the backends whose exists throws
RECURSIVE existsFrom(_, _)
existsFrom(i, faulty) ==
    IF i > Len(adapters)
    THEN [calls |-> <<>>, result |-> Ok(Some(TRUE))]
    ELSE IF adapters[i][2] \in faulty
    THEN [calls |-> <<ExistsCall(i)>>, result |-> BackendError(adapters[i][1])]
    ELSE IF ~bucket[adapters[i][2]]
    THEN [calls |-> <<ExistsCall(i)>>, result |-> Ok(Some(FALSE))]
    ELSE LET rest == existsFrom(i + 1, faulty)
         IN [rest EXCEPT !.calls = <<ExistsCall(i)>> \o @]

exists(faulty) ==
    LET run == existsFrom(1, faulty)
    IN /\ last' = Op("exists", ws, <<>>, run.calls, run.result, <<>>)
       /\ UNCHANGED <<adapters, ws, store, bucket, written, listVars>>

\* the loop of make without its try/catch: the first throw ends it
RECURSIVE makeFromRethrow(_, _, _, _)
makeFromRethrow(i, bk, faultyExists, faultyMake) ==
    IF i > Len(adapters)
    THEN [bucket |-> bk, calls |-> <<>>, logged |-> <<>>, result |-> Ok(Undefined)]
    ELSE LET k == adapters[i][1]
             a == adapters[i][2]
             makeCall == Call(k, "make", ws, <<>>)
         IN IF a \in faultyExists
            THEN [bucket |-> bk, calls |-> <<ExistsCall(i)>>, logged |-> <<>>,
                  result |-> BackendError(k)]
            ELSE IF bk[a]
            THEN LET rest == makeFromRethrow(i + 1, bk, faultyExists, faultyMake)
                 IN [rest EXCEPT !.calls = <<ExistsCall(i)>> \o @]
            ELSE IF a \in faultyMake
            THEN [bucket |-> bk, calls |-> <<ExistsCall(i), makeCall>>, logged |-> <<>>,
                  result |-> BackendError(k)]
            ELSE LET rest == makeFromRethrow(i + 1, [bk EXCEPT ![a] = TRUE],
                                             faultyExists, faultyMake)
                 IN [rest EXCEPT !.calls = <<ExistsCall(i), makeCall>> \o @]

\* the loop of make from adapter i on; logged: the errors caught, given to
\* ctx.error and Analytics.handleError
RECURSIVE makeFrom(_, _, _, _)
makeFrom(i, bk, faultyExists, faultyMake) ==
    IF i > Len(adapters)
    THEN [bucket |-> bk, calls |-> <<>>, logged |-> <<>>, result |-> Ok(Undefined)]
    ELSE LET k == adapters[i][1]
             a == adapters[i][2]
             makeCall == Call(k, "make", ws, <<>>)
             \* the try block on adapter i
             try == IF a \in faultyExists
                    THEN [bucket |-> bk, calls |-> <<ExistsCall(i)>>,
                          logged |-> <<Thrown(k, "exists")>>]
                    ELSE IF bk[a]
                    THEN [bucket |-> bk, calls |-> <<ExistsCall(i)>>, logged |-> <<>>]
                    ELSE IF a \in faultyMake
                    THEN [bucket |-> bk, calls |-> <<ExistsCall(i), makeCall>>,
                          logged |-> <<Thrown(k, "make")>>]
                    ELSE [bucket |-> [bk EXCEPT ![a] = TRUE],
                          calls |-> <<ExistsCall(i), makeCall>>, logged |-> <<>>]
             rest == makeFrom(i + 1, try.bucket, faultyExists, faultyMake)
         IN [rest EXCEPT !.calls = try.calls \o @, !.logged = try.logged \o @]

make(faultyExists, faultyMake) ==
    LET run == makeFrom(1, bucket, faultyExists, faultyMake)
    IN /\ bucket' = run.bucket
       /\ last' = Op("make", ws, <<>>, run.calls, run.result, run.logged)
       /\ UNCHANGED <<adapters, ws, store, written, listVars>>

\* the loop of delete, calling delete on every adapter without asking exists
RECURSIVE deleteFromAll(_, _, _, _)
deleteFromAll(i, bk, faultyExists, faultyDelete) ==
    IF i > Len(adapters)
    THEN [bucket |-> bk, calls |-> <<>>, result |-> Ok(Undefined)]
    ELSE LET k == adapters[i][1]
             a == adapters[i][2]
             deleteCall == Call(k, "delete", ws, <<>>)
         IN IF a \in faultyDelete
            THEN [bucket |-> bk, calls |-> <<deleteCall>>, result |-> BackendError(k)]
            ELSE LET rest == deleteFromAll(i + 1, [bk EXCEPT ![a] = FALSE],
                                           faultyExists, faultyDelete)
                 IN [rest EXCEPT !.calls = <<deleteCall>> \o @]

\* the loop of delete from adapter i on
RECURSIVE deleteFrom(_, _, _, _)
deleteFrom(i, bk, faultyExists, faultyDelete) ==
    IF i > Len(adapters)
    THEN [bucket |-> bk, calls |-> <<>>, result |-> Ok(Undefined)]
    ELSE LET k == adapters[i][1]
             a == adapters[i][2]
             deleteCall == Call(k, "delete", ws, <<>>)
         IN IF a \in faultyExists
            THEN [bucket |-> bk, calls |-> <<ExistsCall(i)>>, result |-> BackendError(k)]
            ELSE IF ~bk[a]
            THEN LET rest == deleteFrom(i + 1, bk, faultyExists, faultyDelete)
                 IN [rest EXCEPT !.calls = <<ExistsCall(i)>> \o @]
            ELSE IF a \in faultyDelete
            THEN [bucket |-> bk, calls |-> <<ExistsCall(i), deleteCall>>,
                  result |-> BackendError(k)]
            ELSE LET rest == deleteFrom(i + 1, [bk EXCEPT ![a] = FALSE],
                                        faultyExists, faultyDelete)
                 IN [rest EXCEPT !.calls = <<ExistsCall(i), deleteCall>> \o @]

delete(faultyExists, faultyDelete) ==
    LET run == deleteFrom(1, bucket, faultyExists, faultyDelete)
    IN /\ bucket' = run.bucket
       /\ last' = Op("delete", ws, <<>>, run.calls, run.result, <<>>)
       /\ UNCHANGED <<adapters, ws, store, written, listVars>>

----------------------------------------------------------------------------
(* Specification of the workspace operations *)

InitLife ==
    /\ adapters = buildStorage(Config)
    /\ ws \in Workspaces
    /\ store = [b \in Backends |-> [n \in Names |-> Undefined]]
    /\ bucket \in [Backends -> BOOLEAN]
    /\ written = [n \in Names |-> Undefined]
    /\ last = Idle
    /\ NoIterator

NextLife ==
    \/ \E F \in Faults : exists(F)
    \/ \E FE \in Faults, FM \in Faults : make(FE, FM)
    \/ \E FE \in Faults, FD \in Faults : delete(FE, FD)

SpecLife == InitLife /\ [][NextLife]_vars

----------------------------------------------------------------------------
(* Specification of construction: buildStorage on any configuration, then *)
(* exists on the adapter it returns                                       *)

\* the configurations: up to NumProviders entries, each with one of the names
Configs == UNION {[1..n -> {StorageNames[i] : i \in 1..Len(StorageNames)}] : n \in 1..NumProviders}

\* storageFactory(c) for each entry, in the order of the calls
storageFactoryCalls(config) ==
    [i \in 1..Len(config) |-> Call(config[i], "storageFactory", "", <<i>>)]

construct(config) ==
    /\ adapters = <<>>
    /\ adapters' = buildStorage(config)
    /\ last' = Op("buildStorage", "", <<config>>, storageFactoryCalls(config), Ok(Undefined), <<>>)
    /\ UNCHANGED <<ws, store, bucket, written, listVars>>

InitBuild ==
    /\ adapters = <<>>
    /\ ws \in Workspaces
    /\ store = [b \in Backends |-> [n \in Names |-> Undefined]]
    /\ bucket \in [Backends -> BOOLEAN]
    /\ written = [n \in Names |-> Undefined]
    /\ last = Idle
    /\ NoIterator

NextBuild ==
    \/ \E config \in Configs : construct(config)
    \/ adapters # <<>> /\ \E F \in Faults : exists(F)

SpecBuild == InitBuild /\ [][NextBuild]_vars

----------------------------------------------------------------------------
(* Listing: the backends' cursors *)

\* the entries backend b lists for workspace t; src is history: the backend
\* the entry came from
ProviderListing(b, t) ==
    LET held == SelectSeq(NameOrder, LAMBDA n : t = ws /\ store[b][n] # Undefined)
    IN [k \in 1..Len(held) |-> [_id |-> ObjectId(held[k]), etag |-> store[b][held[k]][1],
                                provider |-> "", src |-> b]]

\* adapter.listStream: a fresh cursor of backend b
ProviderListStream(cur, b) == [cur EXCEPT ![b] = [@ EXCEPT !.opens = @ + 1, !.pos = 0]]

\* the sizes of the batch a cursor with `remaining` entries may hand out:
\* an empty batch only at the end of the listing
BatchSizes(remaining) ==
    IF remaining = 0 THEN {0}
    ELSE {k \in 1..MaxBatch : k <= remaining}

ProviderCursorClose(cur, b) == [cur EXCEPT ![b].closes = @ + 1]

----------------------------------------------------------------------------
(* makeStorageIterator, find, listStream *)

\* makeStorageIterator, walking the adapters in registry order
makeStorageIteratorUnreversed ==
    [registry |-> adapters, adapters |-> adapters, provider |-> Undefined, iterator |-> Undefined]

\* makeStorageIterator, reversing this.adapters itself: this.adapters.reverse()
makeStorageIteratorInPlace ==
    [registry |-> reverse(adapters), adapters |-> reverse(adapters),
     provider |-> Undefined, iterator |-> Undefined]

\* the locals of a new iterator: adapters is a reversed copy, [...this.adapters].reverse();
\* registry is this.adapters after the call
makeStorageIterator ==
    [registry |-> adapters, adapters |-> reverse(adapters),
     provider |-> Undefined, iterator |-> Undefined]

NewIterator(kind) ==
    LET storageIterator == makeStorageIterator
    IN /\ \A c \in Consumers : frames[c].pc = "idle"
       /\ itKind' = kind
       /\ itAdapters' = storageIterator.adapters
       /\ itProvider' = storageIterator.provider
       /\ itIterator' = storageIterator.iterator
       /\ frames' = [c \in Consumers |-> IdleFrame]
       /\ cursor' = [b \in Backends |-> NoCursor]
       /\ yielded' = <<>>
       /\ closeCalls' = 0
       /\ hist' = NoHist
       /\ adapters' = storageIterator.registry
       /\ UNCHANGED <<ws, store, bucket, written, last>>

find == NewIterator("find")

listStream == NewIterator("listStream")

\* docInfos with d.provider left as the backend set it
TaggedNot(docInfos, prov) == docInfos

\* for (const d of docInfos) d.provider = provider?.[0]
Tagged(docInfos, prov) ==
    [k \in 1..Len(docInfos) |->
        [docInfos[k] EXCEPT !.provider = IF prov = Undefined THEN "undefined" ELSE prov[1][1]]]

\* what the wrapper made by find or listStream hands to its caller
Wrapped(docInfos) ==
    IF itKind = "find"
    THEN [k \in 1..Len(docInfos) |->
            [hash |-> docInfos[k].etag, id |-> docInfos[k]._id]]
    ELSE docInfos

Returned(batch) == Some([kind |-> "ok", code |-> "", batch |-> batch])
Closed == Some([kind |-> "closed", code |-> "", batch |-> <<>>])
Threw(code) == Some([kind |-> "error", code |-> code, batch |-> <<>>])

\* `await iterator.next()` with iterator = it: the cursor moves on when the call
\* is made and consumer c is suspended until the batch arrives.  A cursor that
\* was closed before hands out nothing more: next() on it throws or says it is
\* at its end.
CallIteratorNext(c, it, fr, cur) ==
    LET b == it[1]
        listing == ProviderListing(b, ws)
    IN IF cur[b].closes > 0
       THEN \E throws \in BOOLEAN :
               /\ cursor' = [cur EXCEPT ![b].late = TRUE]
               /\ frames' = [fr EXCEPT ![c] =
                               IF throws
                               THEN [IdleFrame EXCEPT !.out = Threw("CursorClosed")]
                               ELSE [pc |-> "next", it |-> it, docInfos |-> <<>>,
                                     out |-> Undefined]]
       ELSE \E k \in BatchSizes(Len(listing) - cur[b].pos) :
               /\ cursor' = [cur EXCEPT ![b].pos = @ + k]
               /\ frames' = [fr EXCEPT ![c] =
                               [pc |-> "next", it |-> it,
                                docInfos |-> SubSeq(listing, cur[b].pos + 1, cur[b].pos + k),
                                out |-> Undefined]]

\* history: consumer c starts a call
Called(c, closing) ==
    [overlapped |-> hist.overlapped \/ \E o \in Consumers \ {c} : frames[o].pc # "idle",
     use |-> IF hist.use # "ok" THEN "used"
             ELSE IF closing /\ itIterator # Undefined THEN "closed"
             ELSE "ok"]

\* next() from the head of its loop, shifting the next adapter whether or not
\* `iterator` holds a cursor
LoopHeadShiftAlways(c, iter) ==
    IF itAdapters # <<>>
    THEN /\ itProvider' = Some(Head(itAdapters))
         /\ itAdapters' = Tail(itAdapters)
         /\ itIterator' = iter
         /\ cursor' = ProviderListStream(cursor, Head(itAdapters)[2])
         /\ frames' = [frames EXCEPT ![c] = [pc |-> "listStream",
                                             it |-> Some(Head(itAdapters)[2]),
                                             docInfos |-> <<>>, out |-> Undefined]]
    ELSE IF iter = Undefined
    THEN /\ frames' = [frames EXCEPT ![c] = [IdleFrame EXCEPT !.out = Returned(<<>>)]]
         /\ itIterator' = iter
         /\ UNCHANGED <<itAdapters, itProvider, cursor>>
    ELSE /\ CallIteratorNext(c, iter, frames, cursor)
         /\ itIterator' = iter
         /\ UNCHANGED <<itAdapters, itProvider>>

\* next() from the head of its loop (line 77) to its first await or its return
LoopHead(c, iter) ==
    IF iter = Undefined /\ itAdapters # <<>>
    THEN \* provider = adapters.shift(); await provider[1].listStream(...)
         /\ itProvider' = Some(Head(itAdapters))
         /\ itAdapters' = Tail(itAdapters)
         /\ itIterator' = iter
         /\ cursor' = ProviderListStream(cursor, Head(itAdapters)[2])
         /\ frames' = [frames EXCEPT ![c] = [pc |-> "listStream",
                                             it |-> Some(Head(itAdapters)[2]),
                                             docInfos |-> <<>>, out |-> Undefined]]
    ELSE IF iter = Undefined
    THEN \* return []
         /\ frames' = [frames EXCEPT ![c] = [IdleFrame EXCEPT !.out = Returned(<<>>)]]
         /\ itIterator' = iter
         /\ UNCHANGED <<itAdapters, itProvider, cursor>>
    ELSE \* await iterator.next()
         /\ CallIteratorNext(c, iter, frames, cursor)
         /\ itIterator' = iter
         /\ UNCHANGED <<itAdapters, itProvider>>

\* a consumer calls next() of the iterator
next(c) ==
    /\ itKind # "none"
    /\ frames[c].pc = "idle"
    /\ LoopHead(c, itIterator)
    /\ hist' = Called(c, FALSE)
    /\ UNCHANGED <<itKind, yielded, closeCalls>>
    /\ UNCHANGED <<adapters, ws, store, bucket, written, last>>

\* listStream has answered: iterator = the cursor; then await iterator.next()
nextListStream(c) ==
    /\ frames[c].pc = "listStream"
    /\ itIterator' = frames[c].it
    /\ CallIteratorNext(c, frames[c].it, frames, cursor)
    /\ UNCHANGED <<itKind, itAdapters, itProvider, yielded, closeCalls, hist>>
    /\ UNCHANGED <<adapters, ws, store, bucket, written, last>>

\* iterator.next() has answered; an empty batch moves on to the next adapter
\* with the cursor left open
nextDocInfosNoClose(c) ==
    /\ frames[c].pc = "next"
    /\ IF Len(frames[c].docInfos) > 0
       THEN LET docInfos == Tagged(frames[c].docInfos, itProvider)
            IN /\ yielded' = yielded \o docInfos
               /\ frames' = [frames EXCEPT ![c] =
                               [IdleFrame EXCEPT !.out = Returned(Wrapped(docInfos))]]
               /\ UNCHANGED <<itIterator, cursor>>
       ELSE /\ frames' = [frames EXCEPT ![c] = [pc |-> "close", it |-> itIterator,
                                                docInfos |-> <<>>, out |-> Undefined]]
            /\ UNCHANGED <<itIterator, cursor, yielded>>
    /\ UNCHANGED <<itKind, itAdapters, itProvider, closeCalls, hist>>
    /\ UNCHANGED <<adapters, ws, store, bucket, written, last>>

\* iterator.next() has answered with docInfos: return them tagged, or close
\* the cursor that `iterator` holds now
nextDocInfos(c) ==
    /\ frames[c].pc = "next"
    /\ IF Len(frames[c].docInfos) > 0
       THEN LET docInfos == Tagged(frames[c].docInfos, itProvider)
            IN /\ yielded' = yielded \o docInfos
               /\ frames' = [frames EXCEPT ![c] =
                               [IdleFrame EXCEPT !.out = Returned(Wrapped(docInfos))]]
               /\ UNCHANGED <<itIterator, cursor>>
       ELSE IF itIterator = Undefined
       THEN \* iterator.close() on undefined
            /\ frames' = [frames EXCEPT ![c] = [IdleFrame EXCEPT !.out = Threw("TypeError")]]
            /\ UNCHANGED <<itIterator, cursor, yielded>>
       ELSE /\ cursor' = ProviderCursorClose(cursor, itIterator[1])
            /\ frames' = [frames EXCEPT ![c] = [pc |-> "close", it |-> itIterator,
                                                docInfos |-> <<>>, out |-> Undefined]]
            /\ UNCHANGED <<itIterator, yielded>>
    /\ UNCHANGED <<itKind, itAdapters, itProvider, closeCalls, hist>>
    /\ UNCHANGED <<adapters, ws, store, bucket, written, last>>

\* iterator.close() has answered: iterator = undefined; continue the loop
nextClosed(c) ==
    /\ frames[c].pc = "close"
    /\ LoopHead(c, Undefined)
    /\ UNCHANGED <<itKind, yielded, closeCalls, hist>>
    /\ UNCHANGED <<adapters, ws, store, bucket, written, last>>

\* close(), leaving the cursor in `iterator` as it is
closeNothing(c) ==
    /\ itKind # "none"
    /\ frames[c].pc = "idle"
    /\ closeCalls < MaxCloses
    /\ closeCalls' = closeCalls + 1
    /\ hist' = Called(c, TRUE)
    /\ frames' = [frames EXCEPT ![c] = [IdleFrame EXCEPT !.out = Closed]]
    /\ UNCHANGED <<itKind, itAdapters, itProvider, itIterator, yielded, cursor>>
    /\ UNCHANGED <<adapters, ws, store, bucket, written, last>>

\* close(), closing the cursor of `provider` whether or not `iterator` holds it
closeProvider(c) ==
    /\ itKind # "none"
    /\ frames[c].pc = "idle"
    /\ closeCalls < MaxCloses
    /\ closeCalls' = closeCalls + 1
    /\ hist' = Called(c, TRUE)
    /\ cursor' = IF itProvider # Undefined
                 THEN ProviderCursorClose(cursor, itProvider[1][2])
                 ELSE cursor
    /\ frames' = [frames EXCEPT ![c] = [IdleFrame EXCEPT !.out = Closed]]
    /\ UNCHANGED <<itKind, itAdapters, itProvider, itIterator, yielded>>
    /\ UNCHANGED <<adapters, ws, store, bucket, written, last>>

\* a consumer calls close() of the iterator
close(c) ==
    /\ itKind # "none"
    /\ frames[c].pc = "idle"
    /\ closeCalls < MaxCloses
    /\ closeCalls' = closeCalls + 1
    /\ hist' = Called(c, TRUE)
    /\ cursor' = IF itIterator # Undefined
                 THEN ProviderCursorClose(cursor, itIterator[1])
                 ELSE cursor
    /\ frames' = [frames EXCEPT ![c] = [IdleFrame EXCEPT !.out = Closed]]
    /\ UNCHANGED <<itKind, itAdapters, itProvider, itIterator, yielded>>
    /\ UNCHANGED <<adapters, ws, store, bucket, written, last>>

----------------------------------------------------------------------------
(* Specification of listing with one consumer, who awaits each call *)

InitList ==
    /\ adapters = buildStorage(Config)
    /\ ws \in Workspaces
    /\ store \in Stores
    /\ bucket = [b \in Backends |-> TRUE]
    /\ written = [n \in Names |-> Undefined]
    /\ last = Idle
    /\ NoIterator

NextList ==
    \/ find
    \/ listStream
    \/ next(1)
    \/ nextListStream(1)
    \/ nextDocInfos(1)
    \/ nextClosed(1)
    \/ close(1)

SpecList == InitList /\ [][NextList]_vars

----------------------------------------------------------------------------
(* Specification of one iterator pulled to its end: the consumer keeps     *)
(* calling next(), every awaited backend call answers, and close() comes   *)
(* only after the end                                                      *)

\* the iterator has nothing left: no adapter to shift, no cursor in `iterator`
Ended ==
    /\ itKind # "none"
    /\ frames[1].pc = "idle"
    /\ itAdapters = <<>>
    /\ itIterator = Undefined

PullStores == [Backends -> [Names -> {Undefined, Some("c1")}]]

InitPull ==
    /\ adapters = buildStorage(Config)
    /\ ws = "ws1"
    /\ store \in PullStores
    /\ bucket = [b \in Backends |-> TRUE]
    /\ written = [n \in Names |-> Undefined]
    /\ last = Idle
    /\ NoIterator

NextPull ==
    \/ itKind = "none" /\ find
    \/ itKind = "none" /\ listStream
    \/ next(1)
    \/ nextListStream(1)
    \/ nextDocInfos(1)
    \/ nextClosed(1)
    \/ Ended /\ close(1)

SpecPull ==
    /\ InitPull
    /\ [][NextPull]_vars
    /\ WF_vars(next(1))
    /\ WF_vars(nextListStream(1))
    /\ WF_vars(nextDocInfos(1))
    /\ WF_vars(nextClosed(1))

----------------------------------------------------------------------------
(* Specification of the operations that change every adapter: remove and   *)
(* delete, with any set of backends throwing                               *)

InitErr ==
    /\ adapters = buildStorage(Config)
    /\ ws = "ws1"
    /\ store \in PullStores
    /\ bucket \in [Backends -> BOOLEAN]
    /\ written = [n \in Names |-> Undefined]
    /\ last = Idle
    /\ NoIterator

NextErr ==
    \/ \E ns \in NameLists, F \in Faults : remove(ns, F)
    \/ \E FE \in Faults, FD \in Faults : delete(FE, FD)

SpecErr == InitErr /\ [][NextErr]_vars

----------------------------------------------------------------------------
(* Specification of listing with two consumers of one iterator: a consumer *)
(* may call next() while the other's call is suspended at an await         *)

InitConc ==
    /\ adapters = buildStorage(Config)
    /\ ws = "ws1"
    /\ store \in PullStores
    /\ bucket = [b \in Backends |-> TRUE]
    /\ written = [n \in Names |-> Undefined]
    /\ last = Idle
    /\ NoIterator

NextConc ==
    \/ listStream
    \/ \E c \in Consumers : next(c)
    \/ \E c \in Consumers : nextListStream(c)
    \/ \E c \in Consumers : nextDocInfos(c)
    \/ \E c \in Consumers : nextClosed(c)

SpecConc == InitConc /\ [][NextConc]_vars

----------------------------------------------------------------------------
(* Specification of listing mixed with lookups: iterators are created and  *)
(* consumed while stat, get and exists are called in between               *)

InitReg ==
    /\ adapters = buildStorage(Config)
    /\ ws = "ws1"
    /\ store \in PullStores
    /\ bucket = [b \in Backends |-> TRUE]
    /\ written = [n \in Names |-> Undefined]
    /\ last = Idle
    /\ NoIterator

NextReg ==
    \/ find
    \/ listStream
    \/ next(1)
    \/ nextListStream(1)
    \/ nextDocInfos(1)
    \/ nextClosed(1)
    \/ close(1)
    \/ \E n \in Names : stat(n)
    \/ \E n \in Names : get(n)
    \/ exists({})

SpecReg == InitReg /\ [][NextReg]_vars

----------------------------------------------------------------------------
(* Properties of the object operations (specification Spec) *)

Primary == adapters[1]
Fallbacks == 2..Len(adapters)
Held(i, name) == store[adapters[i][2]][name] # Undefined
LastName == last.args[1]
ReadOps == {"get", "partial", "read"}
\* the calls of a lookup that probes adapters 1..k
StatCalls(k, name) == [i \in 1..k |-> Call(adapters[i][1], "stat", ws, <<name>>)]
AbsentEverywhere(name) == \A i \in 1..Len(adapters) : ~Held(i, name)

MaskedByPrimary(name) ==
    /\ Held(1, name)
    /\ \E i \in Fallbacks : Held(i, name) /\ store[adapters[i][2]][name] # store[Primary[2]][name]

\* C1: a name held by the primary and, with different content, by a fallback:
\* stat returns the primary's stat record annotated with the primary's name,
\* get returns the primary's content through a get on the primary.
C1_PrimaryMasksFallback ==
    (last.op \in {"stat", "get"} /\ MaskedByPrimary(LastName)) =>
        /\ last.result.kind = "ok"
        /\ last.op = "stat" =>
              last.result.value = Some([_id |-> ObjectId(LastName),
                                        etag |-> store[Primary[2]][LastName][1],
                                        provider |-> Primary[1]])
        /\ last.op = "get" =>
              /\ last.result.value[1].data = store[Primary[2]][LastName][1]
              /\ last.calls[Len(last.calls)] = Call(Primary[1], "get", ws, <<ObjectId(LastName)>>)
              /\ \A k \in 1..Len(last.calls) : last.calls[k].provider = Primary[1]

C1_Witness ==
    /\ last.op = "get"
    /\ MaskedByPrimary(LastName)
    /\ last.result.kind = "ok"

FirstHolder(name) == CHOOSE i \in 1..Len(adapters) : Held(i, name) /\ \A j \in 1..(i - 1) : ~Held(j, name)

\* C2: a name absent from the primary and held by a fallback: get, partial and
\* read succeed with the content of the first adapter in registry order that
\* holds it, through one call on that adapter with the _id of its stat record.
C2_FallbackServes ==
    (last.op \in ReadOps /\ ~Held(1, LastName) /\ \E i \in Fallbacks : Held(i, LastName)) =>
        LET i == FirstHolder(LastName)
            extra == SubSeq(last.args, 2, Len(last.args))
        IN /\ last.result.kind = "ok"
           /\ last.result.value[1].data = store[adapters[i][2]][LastName][1]
           /\ last.calls = Append(StatCalls(i, LastName),
                                  Call(adapters[i][1], last.op, ws, <<ObjectId(LastName)>> \o extra))

C2_Witness ==
    /\ last.op = "partial"
    /\ ~Held(1, LastName)
    /\ \E i \in Fallbacks : Held(i, LastName)
    /\ last.result.kind = "ok"

C4_ReadAfterPut ==
    (last.op \in {"stat", "get"} /\ written[LastName] # Undefined) =>
        /\ last.result.kind = "ok"
        /\ last.op = "stat" => last.result.value[1].etag = written[LastName][1]
        /\ last.op = "get" => last.result.value[1].data = written[LastName][1]

C4_Witness ==
    /\ last.op = "stat"
    /\ written[LastName] # Undefined
    /\ \E i \in Fallbacks : Held(i, LastName) /\ store[adapters[i][2]][LastName] # written[LastName]

NotFoundFor(name) ==
    /\ last.result.kind = "error"
    /\ last.result.code = "NoSuchKey"
    /\ \E k \in 1..Len(last.result.message) : last.result.message[k] = ws
    /\ \E k \in 1..Len(last.result.message) : last.result.message[k] = name

NoReadCall == \A k \in 1..Len(last.calls) : last.calls[k].method \notin ReadOps

\* C7 as stated: stat, get, partial and read of a name no adapter holds fail
\* with a NoSuchKey error naming the workspace and the name, and make no
\* get/partial/read call.
C7_AllReadsThrowNotFound ==
    (last.op \in ReadOps \cup {"stat"} /\ AbsentEverywhere(LastName)) =>
        NotFoundFor(LastName) /\ NoReadCall

\* C7 amended: get, partial and read of a name no adapter holds fail with a
\* NoSuchKey error naming the workspace and the name; stat returns undefined
\* without an error; none of them makes a get/partial/read call.
C7_NotFound ==
    (last.op \in ReadOps \cup {"stat"} /\ AbsentEverywhere(LastName)) =>
        /\ last.op \in ReadOps => NotFoundFor(LastName)
        /\ last.op = "stat" => last.result = Ok(Undefined)
        /\ last.calls = StatCalls(Len(adapters), LastName)

C7_Witness ==
    /\ last.op = "read"
    /\ AbsentEverywhere(LastName)
    /\ last.result.code = "NoSuchKey"

RemoveCalls(k, names) == [i \in 1..k |-> Call(adapters[i][1], "remove", ws, <<names>>)]

----------------------------------------------------------------------------
(* Properties of the workspace operations (specification SpecLife) *)

ExistsCalls(k) == [i \in 1..k |-> ExistsCall(i)]
IsExistsCall(c) == c.method = "exists"
\* the adapter (index in the registry) a call went to
AdapterOf(c) == CHOOSE i \in 1..Len(adapters) : adapters[i][1] = c.provider

\* C8: exists returns true exactly when every adapter reports existence, and
\* false at the first adapter that reports false, without asking the later ones.
C8_ExistsAll ==
    (last.op = "exists" /\ last.result.kind = "ok") =>
        /\ last.result.value = Some(\A i \in 1..Len(adapters) : bucket[adapters[i][2]])
        /\ last.result.value = Some(FALSE) =>
              /\ ~bucket[adapters[Len(last.calls)][2]]
              /\ \A i \in 1..(Len(last.calls) - 1) : bucket[adapters[i][2]]
        /\ last.calls = ExistsCalls(Len(last.calls))

C8_Witness ==
    /\ last.op = "exists"
    /\ last.result.value = Some(FALSE)
    /\ \E i \in 1..Len(adapters) : bucket[adapters[i][2]]
    /\ Len(last.calls) < Len(adapters)

\* C9: make completes normally whichever exists and make calls throw; it asks
\* every adapter exists, in registry order, and calls make on an adapter only
\* right after that adapter reported that the workspace does not exist.
C9_MakeNeverFails ==
    [][last'.op = "make" =>
          /\ last'.result = Ok(Undefined)
          /\ SelectSeq(last'.calls, IsExistsCall) = ExistsCalls(Len(adapters))
          /\ \A k \in 1..Len(last'.calls) :
                last'.calls[k].method = "make" =>
                    /\ k > 1
                    /\ last'.calls[k - 1] = ExistsCall(AdapterOf(last'.calls[k]))
                    /\ ~bucket[adapters[AdapterOf(last'.calls[k])][2]]
                    /\ \A j \in 1..Len(last'.logged) :
                          last'.logged[j] # Thrown(last'.calls[k].provider, "exists")]_vars

C9_Witness ==
    /\ last.op = "make"
    /\ Len(last.logged) = Len(adapters)
    /\ \E j \in 1..Len(last.logged) : last.logged[j].method = "make"
    /\ \E j \in 1..Len(last.logged) : last.logged[j].method = "exists"
    /\ last.result.kind = "ok"

----------------------------------------------------------------------------
(* Properties of listing (specification SpecList) *)

\* the place in the registry of the adapter with backend b
RegIndex(b) == CHOOSE i \in 1..Len(adapters) : adapters[i][2] = b
\* next() has returned an empty batch and close() was not called before
Exhausted == frames[1].out = Returned(<<>>) /\ closeCalls = 0
Occurrences(id) == {k \in 1..Len(yielded) : yielded[k]._id = id}
InListing(b, id) ==
    \E k \in 1..Len(ProviderListing(b, ws)) : ProviderListing(b, ws)[k]._id = id

\* C5: the entries come adapter by adapter in reverse registry order: an entry
\* of the adapter at index j comes before every entry of an adapter at index
\* i < j; after full consumption the last occurrence of an id the primary
\* lists is the primary's entry.
C5_ReverseRegistryOrder ==
    /\ \A k \in 1..Len(yielded) : \A l \in (k + 1)..Len(yielded) :
          RegIndex(yielded[k].src) >= RegIndex(yielded[l].src)
    /\ Exhausted =>
          \A n \in Names :
              InListing(Primary[2], ObjectId(n)) =>
                  LET lastOcc == CHOOSE k \in Occurrences(ObjectId(n)) :
                                     \A l \in Occurrences(ObjectId(n)) : l <= k
                  IN /\ Occurrences(ObjectId(n)) # {}
                     /\ yielded[lastOcc].src = Primary[2]
                     /\ yielded[lastOcc].provider = Primary[1]

C5_Witness ==
    /\ Exhausted
    /\ \E n \in Names : \E i \in Fallbacks :
          /\ Held(1, n) /\ Held(i, n)
          /\ store[adapters[i][2]][n] # store[Primary[2]][n]
          /\ Cardinality(Occurrences(ObjectId(n))) > 1
    /\ \E n \in Names : Cardinality(Occurrences(ObjectId(n))) = 1

RECURSIVE ListedUpTo(_)
ListedUpTo(i) == IF i = 0 THEN 0
                 ELSE Len(ProviderListing(adapters[i][2], ws)) + ListedUpTo(i - 1)

\* C6: every entry returned carries the name of the adapter whose cursor
\* produced it, and no entry is returned twice; once next() has returned an
\* empty batch every entry of every backend's listing has been returned
\* exactly once, the total being the sum of the listings' lengths.
C6_EveryEntryOnce ==
    /\ \A k \in 1..Len(yielded) :
          /\ yielded[k].provider = adapters[RegIndex(yielded[k].src)][1]
          /\ \A l \in 1..Len(yielded) :
                (yielded[l].src = yielded[k].src /\ yielded[l]._id = yielded[k]._id) => l = k
    /\ Exhausted =>
          /\ Len(yielded) = ListedUpTo(Len(adapters))
          /\ \A i \in 1..Len(adapters) :
                LET listing == ProviderListing(adapters[i][2], ws)
                IN \A e \in 1..Len(listing) :
                      Cardinality({k \in 1..Len(yielded) :
                                      yielded[k] = [listing[e] EXCEPT !.provider = adapters[i][1]]}) = 1

C6_Witness ==
    /\ Exhausted
    /\ Len(yielded) = Len(adapters) * Cardinality(Names)
    /\ \A b \in Backends : cursor[b].opens = 1 /\ cursor[b].closes = 1

DeleteCall(i) == Call(adapters[i][1], "delete", ws, <<>>)
CallsTo(calls, c) == {k \in 1..Len(calls) : calls[k] = c}

\* C11: delete calls an adapter's delete exactly when that adapter has just
\* reported existence, never when it reported non-existence; when no call
\* throws, every adapter that existed got exactly one delete call and the
\* others none.
C11_DeleteExisting ==
    [][last'.op = "delete" =>
          LET calls == last'.calls
              threw == last'.result.kind = "error"
          IN /\ \A k \in 1..Len(calls) :
                   calls[k].method = "delete" =>
                       /\ k > 1
                       /\ calls[k - 1] = ExistsCall(AdapterOf(calls[k]))
                       /\ bucket[adapters[AdapterOf(calls[k])][2]]
             /\ \A k \in 1..Len(calls) :
                   (/\ calls[k].method = "exists"
                    /\ bucket[adapters[AdapterOf(calls[k])][2]]
                    /\ ~(threw /\ k = Len(calls))) =>
                       /\ k < Len(calls)
                       /\ calls[k + 1] = DeleteCall(AdapterOf(calls[k]))
             /\ ~threw =>
                   \A i \in 1..Len(adapters) :
                       Cardinality(CallsTo(calls, DeleteCall(i))) =
                           IF bucket[adapters[i][2]] THEN 1 ELSE 0]_vars

C11_Witness ==
    /\ last.op = "delete"
    /\ last.result.kind = "ok"
    /\ \E i \in 1..Len(adapters) : CallsTo(last.calls, DeleteCall(i)) # {}
    /\ \E i \in 1..Len(adapters) : CallsTo(last.calls, DeleteCall(i)) = {}

----------------------------------------------------------------------------
(* Further properties of listing (specification SpecList) *)

IsOpen(b) == cursor[b].opens > cursor[b].closes
\* close() has just returned, for the first time on this iterator
FirstCloseReturned == frames[1].out = Closed /\ closeCalls = 1

\* C12: close() called between two next() calls, before the end was reached
\* or after, returns normally and closes the cursor that is open: when it has
\* returned, every cursor this iterator opened has been closed.
C12_CloseLeavesNoCursor ==
    FirstCloseReturned =>
        /\ \A b \in Backends : cursor[b].opens = cursor[b].closes
        /\ frames[1].out[1].kind # "error"

C12_Witness ==
    /\ FirstCloseReturned
    /\ itIterator # Undefined
    /\ itAdapters # <<>>
    /\ yielded # <<>>
    /\ cursor[itIterator[1]].opens = 1

----------------------------------------------------------------------------
(* Properties of construction (specification SpecBuild) *)

\* C13: buildStorage builds the entries in declared order and returns an
\* adapter whose registry is that order reversed: for n entries, place i of
\* the registry (counted from 1) holds the name and the backend of entry
\* n + 1 - i, so the entry declared last is the primary.
C13_RegistryReversesConfig ==
    last.op = "buildStorage" =>
        LET config == last.args[1]
            n == Len(config)
        IN /\ Len(adapters) = n
           /\ \A i \in 1..n : adapters[i] = <<config[n + 1 - i], n + 1 - i>>
           /\ \A i \in 1..n : last.calls[i].provider = config[i] /\ last.calls[i].arg = <<i>>

C13_Witness ==
    /\ last.op = "buildStorage"
    /\ Len(adapters) > 1
    /\ adapters[1] = <<last.args[1][Len(adapters)], Len(adapters)>>
    /\ adapters[1][1] # adapters[Len(adapters)][1]

OpenCursors == {b \in Backends : IsOpen(b)}

\* C14: with one consumer who awaits each call, at most one cursor the
\* iterator opened is open in any state, and whenever a cursor is open the
\* cursors of the adapters walked before it have been closed as often as
\* they were opened: listStream of the next adapter comes after the close
\* of the one before.
C14_OneOpenCursor ==
    /\ Cardinality(OpenCursors) <= 1
    /\ \A b \in OpenCursors : \A o \in Backends \ {b} : cursor[o].closes >= cursor[o].opens

C14_Witness ==
    \E b \in OpenCursors : \E o \in Backends \ {b} :
        /\ cursor[o].opens = 1
        /\ cursor[o].closes = 1
        /\ frames[1].pc = "idle"
        /\ yielded # <<>>
        /\ yielded[Len(yielded)].src = b

----------------------------------------------------------------------------
(* Properties of an iterator pulled to its end (specification SpecPull) *)

\* C15: the backends' listings being finite, repeated next() calls lead to
\* a next() that returns an empty batch; from then on every next() returns
\* an empty batch and every close() returns without effect: the iterator
\* stays at its end, no cursor is opened, read or closed, and no adapter is
\* called.
C15_EndsAndStaysEnded ==
    /\ (itKind # "none") ~> (frames[1].out = Returned(<<>>))
    /\ [][Ended =>
             /\ Ended'
             /\ cursor' = cursor
             /\ yielded' = yielded
             /\ last' = last
             /\ frames'[1].out \in {Returned(<<>>), Closed}]_vars

C15_Witness ==
    /\ frames[1].out = Returned(<<>>)
    /\ closeCalls = 1
    /\ yielded # <<>>
    /\ \A b \in Backends : cursor[b].opens = 1 /\ cursor[b].closes = 1

----------------------------------------------------------------------------
(* Further properties of the object operations (specification Spec) *)

LocatingOps == {"stat"} \cup ReadOps
\* the adapters findProvider asks for the last operation's name
Probed == IF AbsentEverywhere(LastName) THEN Len(adapters) ELSE FirstHolder(LastName)

\* C16: findProvider asks the adapters for their stat one at a time in
\* registry order and stops at the first that answers: the stat calls of an
\* operation are one call to each adapter up to the first holder, in order
\* and before any other call, and no adapter after the first holder is
\* called at all; a name the primary holds is resolved by calls to the
\* primary alone.
C16_ProbesUntilFirstHolder ==
    last.op \in LocatingOps =>
        LET calls == last.calls
            stats == SelectSeq(calls, LAMBDA c : c.method = "stat")
        IN /\ stats = StatCalls(Probed, LastName)
           /\ SubSeq(calls, 1, Len(stats)) = stats
           /\ \A k \in 1..Len(calls) : AdapterOf(calls[k]) <= Probed
           /\ Held(1, LastName) => \A k \in 1..Len(calls) : calls[k].provider = Primary[1]

C16_Witness ==
    /\ last.op = "stat"
    /\ Held(1, LastName)
    /\ \E i \in Fallbacks : Held(i, LastName)
    /\ last.calls = StatCalls(1, LastName)

----------------------------------------------------------------------------
(* Properties of remove and delete under errors (specification SpecErr) *)

\* C17: when delete or remove ends with an error, the error is the one the
\* last adapter call threw, passed on as it is; no adapter after the one
\* that threw is called and its objects and bucket stay as they were; the
\* adapters before it keep what the operation did to them: their listed
\* names are removed (remove), their bucket is deleted (delete).
C17_FirstErrorStops ==
    [][(last'.op \in {"remove", "delete"} /\ last'.result.kind = "error") =>
          LET calls == last'.calls
              n == Len(calls)
              i == AdapterOf(calls[n])
          IN /\ n > 0
             /\ last'.result = BackendError(calls[n].provider)
             /\ \A k \in 1..n : AdapterOf(calls[k]) <= i
             /\ \A j \in i..Len(adapters) :
                   /\ store'[adapters[j][2]] = store[adapters[j][2]]
                   /\ bucket'[adapters[j][2]] = bucket[adapters[j][2]]
             /\ \A j \in 1..(i - 1) :
                   IF last'.op = "remove"
                   THEN /\ CallsTo(calls, Call(adapters[j][1], "remove", ws, last'.args)) # {}
                        /\ store'[adapters[j][2]] =
                               ProviderRemove(store, adapters[j][2], last'.args[1])[adapters[j][2]]
                   ELSE /\ ~bucket'[adapters[j][2]]
                        /\ bucket[adapters[j][2]] => CallsTo(calls, DeleteCall(j)) # {}]_vars

C17_Witness ==
    /\ last.op = "remove"
    /\ last.result = BackendError(adapters[2][1])
    /\ Len(last.calls) = 2
    /\ last.args[1] # <<>>
    /\ \A k \in 1..Len(last.args[1]) : ~Held(1, last.args[1][k])
    /\ \E k \in 1..Len(last.args[1]) : Held(2, last.args[1][k])

----------------------------------------------------------------------------
(* Properties of listing with two consumers (specification SpecConc) *)

\* an entry handed out under the name of another adapter than its own
Mistagged == \E k \in 1..Len(yielded) : yielded[k].provider # adapters[RegIndex(yielded[k].src)][1]
\* a next() has returned an empty batch with entries of some adapter never handed out
Skipped ==
    /\ \E c \in Consumers : frames[c].out = Returned(<<>>)
    /\ \E b \in Backends : \E e \in 1..Len(ProviderListing(b, ws)) :
          \A k \in 1..Len(yielded) :
              yielded[k].src # b \/ yielded[k]._id # ProviderListing(b, ws)[e]._id

\* C18: one iterator is not safe for two consumers: two cursors open at
\* once, an entry under the wrong adapter's name, or entries of an adapter
\* skipped appear only after a next() was called while another call on the
\* same iterator was suspended at an await; without such an overlap none of
\* them can happen.  That they do happen with an overlap is the witness.
C18_OnlyOverlapBreaks ==
    (Cardinality(OpenCursors) > 1 \/ Mistagged \/ Skipped) => hist.overlapped

C18_Witness ==
    /\ Cardinality(OpenCursors) = 2
    /\ frames[1].pc = "listStream"
    /\ frames[2].pc = "listStream"
    /\ frames[1].it # frames[2].it

----------------------------------------------------------------------------
(* Properties of the registry (specification SpecReg) *)

\* the registry as the constructor received it
Registry == buildStorage(Config)
\* no call has been made on the iterator since it was created
Fresh == itKind # "none" /\ cursor = [b \in Backends |-> NoCursor] /\ hist = NoHist

\* C19: after any sequence of operations this.adapters is the sequence the
\* constructor received, in the same order.  An iterator walks a reversed
\* copy and shifts adapters off the copy only: its working list is a tail of
\* the reversed registry, a new iterator starts from the whole reversed
\* registry, and a lookup made afterwards asks the adapters in the original
\* order.
C19_RegistryFixed ==
    /\ adapters = Registry
    /\ itKind # "none" =>
          \E k \in 0..Len(Registry) :
              itAdapters = SubSeq(reverse(Registry), k + 1, Len(Registry))
    /\ Fresh /\ frames[1].out = Undefined => itAdapters = reverse(Registry)
    /\ (last.op = "stat" /\ last.result.value = Undefined) =>
          last.calls = [i \in 1..Len(Registry) |-> Call(Registry[i][1], "stat", ws, last.args)]

C19_Witness ==
    /\ itKind # "none"
    /\ itAdapters = <<>>
    /\ frames[1].out = Returned(<<>>)
    /\ yielded # <<>>
    /\ Len(adapters) = NumProviders
    /\ adapters[1][1] # adapters[Len(adapters)][1]
    /\ last.op = "stat"
    /\ Len(last.calls) = Len(adapters)

----------------------------------------------------------------------------
(* Use of an iterator after close() (specification SpecList) *)

\* C20: over any sequence of next() and close() calls of one consumer, every
\* cursor the iterator opened is closed at most once and gets no next call
\* after it was closed.  The code does not keep this: close() closes the
\* cursor in `iterator` and leaves `iterator` set, so a next() that follows
\* calls next on the closed cursor and, on its empty answer, closes it again.
C20_CloseOnceNoLateNext ==
    \A b \in Backends : cursor[b].closes <= 1 /\ ~cursor[b].late

\* close() was called with a cursor in `iterator`, next() was called after
\* it, and that cursor got a next call and a second close
C20_Witness ==
    /\ hist.use = "used"
    /\ closeCalls = 1
    /\ \E b \in Backends : cursor[b].opens = 1 /\ cursor[b].closes = 2 /\ cursor[b].late

====
